---- MODULE Spec2Model ----
(***************************************************************************)
(* Merkle sum tree of "Task 1/Merkle_Sum_Tree.rs": construction (new),     *)
(* commitment projection (commit), proof generation (prove) and proof      *)
(* verification (verify).                                                  *)
(*                                                                         *)
(* u64 is scaled down to the range 0..U64Max; an addition whose exact      *)
(* result exceeds U64Max overflows.  Rust defines the outcome of such an   *)
(* addition by the build profile: with overflow checks (debug) the thread  *)
(* panics, without them (release) the result wraps.  The profile is the    *)
(* state variable overflow_checks, chosen in Init.                         *)
(*                                                                         *)
(* SHA-256 is idealised as a collision-free function: a digest is the      *)
(* tagged preimage.  A preimage is the tuple of the fixed-width fields     *)
(* that the code concatenates.                                             *)
(***************************************************************************)
EXTENDS Integers, Sequences, FiniteSets, TLC

VARIABLES values, overflow_checks, pc, panic, k, roots, tree,
          root_commitment, position, proof, honest_proof, result,
          values2, commitment2

vars == <<values, overflow_checks, pc, panic, k, roots, tree,
          root_commitment, position, proof, honest_proof, result,
          values2, commitment2>>

\* Largest value of the (scaled) u64 type.
U64Max == 3
\* Longest input sequence handed to new.
MaxLen == 5
\* Largest position handed to prove.
MaxPosition == 5
\* Largest number of siblings of an arbitrary Proof value handed to verify.
MaxSiblings == 2
\* Largest index of an arbitrary Proof value handed to verify.
MaxIndex == 3

U64 == 0..U64Max

RECURSIVE SeqsUpTo(_, _)
SeqsUpTo(S, n) ==
    IF n = 0 THEN {<<>>}
    ELSE LET shorter == SeqsUpTo(S, n - 1)
         IN  shorter \cup {Append(s, x) : s \in {t \in shorter : Len(t) = n - 1}, x \in S}

RECURSIVE Reverse(_)
Reverse(s) == IF s = <<>> THEN <<>> ELSE Append(Reverse(Tail(s)), Head(s))

IsPowerOfTwo(n) == \E e \in 0..n : 2^e = n

\* ---------------------------------------------------------------- hashing

hash_bytes(slice) == <<"sha256", slice>>

\* ------------------------------------------------------------------ nodes

height(node) == IF node.kind = "Branch" THEN node.height ELSE 0

amount(node) == IF node.kind = "Branch" THEN node.sum ELSE node.value

digest(node) == node.commitment

\* u64 addition without overflow checks.
wrapping_add(a, b) == (a + b) % (U64Max + 1)

new_leaf(value) ==
    [kind |-> "Leaf", value |-> value, commitment |-> hash_bytes(<<value>>)]

\* new_branch with the child digests left out of the hashed bytes.
new_branch_no_digests(left, right) ==
    IF height(left) # height(right)
    THEN [panic |-> "new_branch_assert", node |-> left]
    ELSE IF overflow_checks /\ amount(left) + amount(right) > U64Max
    THEN [panic |-> "new_branch_overflow", node |-> left]
    ELSE LET h   == height(left) + 1
             sum == wrapping_add(amount(left), amount(right))
         IN  [panic |-> "none",
              node  |-> [kind |-> "Branch", height |-> h, sum |-> sum,
                         left |-> left, right |-> right,
                         commitment |-> hash_bytes(<<h, sum>>)]]

new_branch(left, right) ==
    IF height(left) # height(right)
    THEN [panic |-> "new_branch_assert", node |-> left]
    ELSE IF overflow_checks /\ amount(left) + amount(right) > U64Max
    THEN [panic |-> "new_branch_overflow", node |-> left]
    ELSE LET h   == height(left) + 1
             sum == wrapping_add(amount(left), amount(right))
         IN  [panic |-> "none",
              node  |-> [kind |-> "Branch", height |-> h, sum |-> sum,
                         left |-> left, right |-> right,
                         commitment |-> hash_bytes(<<h, sum, digest(left), digest(right)>>)]]

Commitment_from(node) == [sum |-> amount(node), hash |-> digest(node)]

\* ---------------------------------------------------------------- builder

\* The bubble-up written with "if" in place of "while": at most one merge.
bubble_up_once(stack, node, h) ==
    IF Len(stack) > 0 /\ stack[Len(stack)][1] = h
    THEN LET sibling == stack[Len(stack)][2]
             merged  == new_branch(sibling, node)
         IN  IF merged.panic # "none"
             THEN [panic |-> merged.panic, roots |-> stack]
             ELSE [panic |-> "none",
                   roots |-> Append(SubSeq(stack, 1, Len(stack) - 1),
                                    <<h + 1, merged.node>>)]
    ELSE [panic |-> "none", roots |-> Append(stack, <<h, node>>)]

\* The "bubble up new leaf" loop of new followed by the push.
RECURSIVE bubble_up(_, _, _)
bubble_up(stack, node, h) ==
    IF Len(stack) > 0 /\ stack[Len(stack)][1] = h
    THEN LET sibling == stack[Len(stack)][2]
             merged  == new_branch(sibling, node)
         IN  IF merged.panic # "none"
             THEN [panic |-> merged.panic, roots |-> stack]
             ELSE bubble_up(SubSeq(stack, 1, Len(stack) - 1), merged.node, h + 1)
    ELSE [panic |-> "none", roots |-> Append(stack, <<h, node>>)]

\* One iteration of "for val in values".
for_val(stack, val) == bubble_up(stack, new_leaf(val), 0)

\* The tail of new: assert!(roots.len() == 1); roots.pop().unwrap().1
new_finish(stack) ==
    IF Len(stack) = 1
    THEN [panic |-> "none", tree |-> <<stack[1][2]>>]
    ELSE [panic |-> "new_assert", tree |-> <<>>]

\* The whole of new, for a sequence built in one call.
RECURSIVE new_from(_, _, _)
new_from(vals, i, stack) ==
    IF i > Len(vals)
    THEN new_finish(stack)
    ELSE LET r == for_val(stack, vals[i])
         IN  IF r.panic # "none"
             THEN [panic |-> r.panic, tree |-> <<>>]
             ELSE new_from(vals, i + 1, r.roots)

new(vals) == new_from(vals, 1, <<>>)

commit(node) == Commitment_from(node)

\* ----------------------------------------------------------------- prover

\* The descent with the mask one bit too high: 1 << height.
RECURSIVE prove_loop_mask_off_by_one(_, _, _)
prove_loop_mask_off_by_one(current, pos, siblings) ==
    IF current.kind = "Branch"
    THEN LET mask == 2^height(current)
         IN  IF (pos \div mask) % 2 = 0
             THEN prove_loop_mask_off_by_one(current.left, pos,
                             Append(siblings, Commitment_from(current.right)))
             ELSE prove_loop_mask_off_by_one(current.right, pos,
                             Append(siblings, Commitment_from(current.left)))
    ELSE [node |-> Commitment_from(current),
          siblings |-> Reverse(siblings),
          index |-> pos]

RECURSIVE prove_loop(_, _, _)
prove_loop(current, pos, siblings) ==
    IF current.kind = "Branch"
    THEN LET mask == 2^(height(current) - 1)
         IN  IF (pos \div mask) % 2 = 0
             THEN prove_loop(current.left, pos,
                             Append(siblings, Commitment_from(current.right)))
             ELSE prove_loop(current.right, pos,
                             Append(siblings, Commitment_from(current.left)))
    ELSE [node |-> Commitment_from(current),
          siblings |-> Reverse(siblings),
          index |-> pos]

prove(node, pos) == prove_loop(node, pos, <<>>)

\* --------------------------------------------------------------- verifier

RECURSIVE verify_loop(_, _, _, _, _)
verify_loop(commitment, h, key, siblings, i) ==
    IF i > Len(siblings)
    THEN [panic |-> "none", commitment |-> commitment]
    ELSE LET sibling_commitment == siblings[i]
             left  == IF key % 2 = 0 THEN commitment ELSE sibling_commitment
             right == IF key % 2 = 0 THEN sibling_commitment ELSE commitment
         IN  IF overflow_checks /\ commitment.sum + sibling_commitment.sum > U64Max
             THEN [panic |-> "verify_overflow", commitment |-> commitment]
             ELSE LET sum  == wrapping_add(commitment.sum, sibling_commitment.sum)
                      hash == hash_bytes(<<h + 1, sum, left.hash, right.hash>>)
                  IN  verify_loop([sum |-> sum, hash |-> hash],
                                  h + 1, key \div 2, siblings, i + 1)

verify(p, root) ==
    LET r == verify_loop(p.node, 0, p.index, p.siblings, 1)
    IN  [panic |-> r.panic, result |-> r.panic = "none" /\ r.commitment = root]

\* ------------------------------------------------------------------ state

Init ==
    /\ values \in SeqsUpTo(U64, MaxLen)
    /\ overflow_checks \in BOOLEAN
    /\ pc = "for"
    /\ panic = "none"
    /\ k = 0
    /\ roots = <<>>
    /\ tree = <<>>
    /\ root_commitment = <<>>
    /\ position = 0
    /\ proof = <<>>
    /\ honest_proof = <<>>
    /\ result = FALSE
    /\ values2 = <<>>
    /\ commitment2 = <<>>

\* new: one iteration of the for loop (lines 175-188).
ForVal ==
    /\ pc = "for"
    /\ k < Len(values)
    /\ LET r == for_val(roots, values[k + 1])
       IN  IF r.panic # "none"
           THEN /\ pc' = "panic"
                /\ panic' = r.panic
                /\ UNCHANGED <<k, roots>>
           ELSE /\ roots' = r.roots
                /\ k' = k + 1
                /\ UNCHANGED <<pc, panic>>
    /\ UNCHANGED <<values, overflow_checks, tree, root_commitment, position,
                   proof, honest_proof, result, values2, commitment2>>

\* new: the loop is exhausted (lines 190-193).
AssertRoots ==
    /\ pc = "for"
    /\ k = Len(values)
    /\ LET r == new_finish(roots)
       IN  IF r.panic # "none"
           THEN /\ pc' = "panic"
                /\ panic' = r.panic
                /\ UNCHANGED <<roots, tree>>
           ELSE /\ pc' = "built"
                /\ tree' = r.tree
                /\ roots' = <<>>
                /\ UNCHANGED panic
    /\ UNCHANGED <<values, overflow_checks, k, root_commitment, position,
                   proof, honest_proof, result, values2, commitment2>>

Commit ==
    /\ pc = "built"
    /\ root_commitment' = <<commit(tree[1])>>
    /\ pc' = "committed"
    /\ UNCHANGED <<values, overflow_checks, panic, k, roots, tree, position,
                   proof, honest_proof, result, values2, commitment2>>

Prove ==
    /\ pc = "committed"
    /\ \E pos \in 0..MaxPosition :
          /\ position' = pos
          /\ proof' = <<prove(tree[1], pos)>>
          /\ honest_proof' = <<prove(tree[1], pos)>>
    /\ pc' = "proved"
    /\ UNCHANGED <<values, overflow_checks, panic, k, roots, tree,
                   root_commitment, result, values2, commitment2>>

Verify ==
    /\ pc \in {"proved", "tampered"}
    /\ LET r == verify(proof[1], root_commitment[1])
       IN  IF r.panic # "none"
           THEN /\ pc' = "panic"
                /\ panic' = r.panic
                /\ UNCHANGED result
           ELSE /\ pc' = "verified"
                /\ result' = r.result
                /\ UNCHANGED panic
    /\ UNCHANGED <<values, overflow_checks, k, roots, tree, root_commitment,
                   position, proof, honest_proof, values2, commitment2>>

\* ------------------------------------------------- values built by callers

\* Digests a caller can put into a Proof besides those it was handed.
ArbDigests ==
    {hash_bytes(<<0>>), hash_bytes(<<1>>),
     hash_bytes(<<1, 1, hash_bytes(<<0>>), hash_bytes(<<1>>)>>)}

ArbCommitments == [sum : U64, hash : ArbDigests]

\* Every Proof value within the bounds: the fields of Proof are public.
ArbProofs ==
    [node : ArbCommitments,
     siblings : SeqsUpTo(ArbCommitments, MaxSiblings),
     index : 0..MaxIndex]

\* The digests that occur in a proof.
ProofDigests(p) == {p.node.hash} \cup {p.siblings[j].hash : j \in 1..Len(p.siblings)}

\* A holder replaces the sum or the hash of exactly one sibling of the proof
\* it was handed by a different value.
Tamper ==
    /\ pc = "proved"
    /\ \E j \in 1..Len(proof[1].siblings) :
          \/ \E s \in U64 \ {proof[1].siblings[j].sum} :
                proof' = <<[proof[1] EXCEPT !.siblings[j].sum = s]>>
          \/ \E d \in (ArbDigests \cup ProofDigests(proof[1])) \ {proof[1].siblings[j].hash} :
                proof' = <<[proof[1] EXCEPT !.siblings[j].hash = d]>>
    /\ pc' = "tampered"
    /\ UNCHANGED <<values, overflow_checks, panic, k, roots, tree,
                   root_commitment, position, honest_proof, result,
                   values2, commitment2>>

\* new and commit applied to a permutation of values that differs from it.
CommitPermuted ==
    /\ pc = "committed"
    /\ \E p \in Permutations(1..Len(values)) :
          LET w == [i \in 1..Len(values) |-> values[p[i]]]
              r == new(w)
          IN  /\ w # values
              /\ values2' = w
              /\ IF r.panic # "none"
                 THEN /\ pc' = "panic"
                      /\ panic' = r.panic
                      /\ UNCHANGED commitment2
                 ELSE /\ pc' = "permuted"
                      /\ commitment2' = <<commit(r.tree[1])>>
                      /\ UNCHANGED panic
    /\ UNCHANGED <<values, overflow_checks, k, roots, tree, root_commitment,
                   position, proof, honest_proof, result>>

Next == ForVal \/ AssertRoots \/ Commit \/ Prove \/ Tamper \/ Verify \/ CommitPermuted

Spec == Init /\ [][Next]_vars

\* verify called on an arbitrary Proof and an arbitrary root commitment.
InitForge ==
    /\ values = <<>>
    /\ overflow_checks \in BOOLEAN
    /\ pc = "proved"
    /\ panic = "none"
    /\ k = 0
    /\ roots = <<>>
    /\ tree = <<>>
    /\ root_commitment \in {<<c>> : c \in ArbCommitments}
    /\ position = 0
    /\ proof \in {<<p>> : p \in ArbProofs}
    /\ honest_proof = <<>>
    /\ result = FALSE
    /\ values2 = <<>>
    /\ commitment2 = <<>>

NextForge == Verify

SpecForge == InitForge /\ [][NextForge]_vars

\* ------------------------------------------------------------- properties

RECURSIVE SumSeq(_)
SumSeq(s) == IF s = <<>> THEN 0 ELSE Head(s) + SumSeq(Tail(s))

\* The leaf values of a subtree, left to right.
RECURSIVE leaves(_)
leaves(node) ==
    IF node.kind = "Branch" THEN leaves(node.left) \o leaves(node.right)
    ELSE <<node.value>>

\* A subtree of height h all of whose leaves are at depth h.
RECURSIVE IsPerfect(_, _)
IsPerfect(node, h) ==
    IF node.kind = "Branch"
    THEN /\ h >= 1
         /\ node.height = h
         /\ IsPerfect(node.left, h - 1)
         /\ IsPerfect(node.right, h - 1)
    ELSE h = 0

\* The invariant of the Branch nodes of a subtree, the sum being exact.
RECURSIVE BranchInvariant(_)
BranchInvariant(node) ==
    node.kind = "Branch" =>
        /\ height(node.left) = node.height - 1
        /\ height(node.right) = node.height - 1
        /\ node.sum = amount(node.left) + amount(node.right)
        /\ BranchInvariant(node.left)
        /\ BranchInvariant(node.right)

\* The positions of the 1-bits of n.
Bits(n) == {b \in 0..n : (n \div 2^b) % 2 = 1}

\* The number of inputs below the stack entries under entry j.
RECURSIVE Offset(_, _)
Offset(stack, j) == IF j = 1 THEN 0 ELSE Offset(stack, j - 1) + 2^(stack[j - 1][1])

BuildPanics == {"new_branch_assert", "new_branch_overflow", "new_assert"}

\* C1: for every power-of-two-length sequence and every position in range,
\* verifying the proof of that position against the root commitment returns
\* true: new, commit, prove and verify all return, and the result is true.
C1_InclusionCorrectness ==
    (IsPowerOfTwo(Len(values)) /\ proof = honest_proof) =>
        /\ panic = "none"
        /\ (pc = "verified" /\ position < Len(values)) => result = TRUE

\* C2: prove returns no Proof when the position is not below the number of
\* leaves of the tree.
C2_IndexOutOfRange ==
    honest_proof # <<>> => position < Len(leaves(tree[1]))

\* C3: verify never panics, whatever Proof and root commitment it is given.
C3_VerifyNeverPanics ==
    panic # "verify_overflow"

\* C4: the sum of the root commitment of a built tree is the exact sum of
\* the input values.
C4_SumAccuracy ==
    root_commitment # <<>> => root_commitment[1].sum = SumSeq(values)

\* C5: new returns a tree exactly for the lengths that are powers of two, and
\* for the other lengths it fails at the assertion on the final stack.
C5_BuildIffPowerOfTwo ==
    /\ tree # <<>> => IsPowerOfTwo(Len(values))
    /\ (pc = "panic" /\ panic \in BuildPanics /\ values2 = <<>>) =>
           /\ ~IsPowerOfTwo(Len(values))
           /\ panic = "new_assert"

\* C6: a proof that verifies against the root and then has the sum or the
\* hash of exactly one sibling replaced by a different value makes verify
\* return false.
C6_TamperDetection ==
    (/\ honest_proof # <<>>
     /\ proof # honest_proof
     /\ pc \in {"verified", "panic"}
     /\ values2 = <<>>
     /\ verify(honest_proof[1], root_commitment[1]).result) =>
        (pc = "verified" /\ result = FALSE)

\* C7: the root commitments of a power-of-two-length sequence and of a
\* permutation of it that differs from it have equal sums and different
\* hashes.
C7_OrderSensitivity ==
    pc = "permuted" =>
        /\ commitment2[1].sum = root_commitment[1].sum
        /\ commitment2[1].hash # root_commitment[1].hash

C7_Witness ==
    /\ pc = "permuted"
    /\ Len(values) = 4
    /\ values2 = <<values[1], values[3], values[2], values[4]>>

\* C8: no merge of new fails the equal-height assertion of new_branch, every
\* Branch node that new builds has children one level below it and a sum
\* that is the sum of its children's sums, and the tree built from 2^e
\* values has height e with every leaf at depth e.
C8_BranchInvariant ==
    /\ panic # "new_branch_assert"
    /\ \A j \in 1..Len(roots) : BranchInvariant(roots[j][2])
    /\ tree # <<>> =>
          /\ BranchInvariant(tree[1])
          /\ 2^height(tree[1]) = Len(values)
          /\ IsPerfect(tree[1], height(tree[1]))

\* C9: the proof that prove returns for a position in range carries that
\* position as its index and the commitment of the input value at that
\* position as its leaf commitment.
C9_LeafPlacement ==
    (honest_proof # <<>> /\ position < Len(values)) =>
        /\ honest_proof[1].index = position
        /\ honest_proof[1].node =
              [sum |-> values[position + 1],
               hash |-> hash_bytes(<<values[position + 1]>>)]

C9_Witness ==
    /\ pc = "proved"
    /\ Len(values) = 4
    /\ position = 2
    /\ values[3] \notin {values[1], values[2], values[4]}
    /\ proof[1].node.sum = values[3]

\* C10: between two iterations of the for loop of new, after k values, the
\* heights on the stack decrease strictly from bottom to top and are the
\* positions of the 1-bits of k, and the entry of height h is a perfect
\* subtree over the next 2^h inputs.
C10_StackInvariant ==
    pc = "for" =>
        /\ \A j \in 1..(Len(roots) - 1) : roots[j][1] > roots[j + 1][1]
        /\ {roots[j][1] : j \in 1..Len(roots)} = Bits(k)
        /\ Len(roots) = Cardinality(Bits(k))
        /\ \A j \in 1..Len(roots) :
              /\ height(roots[j][2]) = roots[j][1]
              /\ IsPerfect(roots[j][2], roots[j][1])
              /\ leaves(roots[j][2]) =
                    SubSeq(values, Offset(roots, j) + 1,
                           Offset(roots, j) + 2^(roots[j][1]))

C10_Witness ==
    /\ pc = "for"
    /\ k = 3
    /\ Len(roots) = 2
    /\ roots[1][1] = 1
    /\ roots[2][1] = 0
====
